---------------------------- MODULE Spec2Model ----------------------------
(***************************************************************************)
(* A model of validity-mvp: ValidityAnalyzer.analyze (src/analyzer.py),    *)
(* the prompt builder (src/prompts.py) and the failure taxonomy            *)
(* (src/failure_library.py).                                               *)
(*                                                                         *)
(* The class ValidityAnalyzer defines several methods twice; Python keeps  *)
(* the later definition, so the model follows analyzer.py lines 213-556.   *)
(***************************************************************************)
EXTENDS Integers, Sequences, FiniteSets, TLC

(***************************************************************************)
(* TEXT.  A text is a sequence of pieces, a run-length form of a string,   *)
(* so that documents of more than 2000 words stay small values:            *)
(*   nul n : n NUL bytes            nl n : n newlines     sp n : n spaces  *)
(*   w n   : n letters (one word, or part of one)                          *)
(*   pw n  : n times " a "  (n one-letter words, each padded by spaces)    *)
(*   jw n  : n one-letter words joined by single spaces ("a a a")          *)
(***************************************************************************)
P(k, n) == [k |-> k, n |-> n]

IsSpace(p) == p.k \in {"nl", "sp"}

PieceLen(p) ==
    CASE p.k = "pw" -> 3 * p.n
      [] p.k = "jw" -> 2 * p.n - 1
      [] OTHER      -> p.n

RECURSIVE TextLen(_)
TextLen(t) == IF t = <<>> THEN 0 ELSE PieceLen(Head(t)) + TextLen(Tail(t))

\* The characters of a piece and of a text (used on short texts only).
RECURSIVE Rep(_, _)
Rep(s, n) == IF n = 0 THEN <<>> ELSE s \o Rep(s, n - 1)

PieceChars(p) ==
    CASE p.k = "nul" -> Rep(<<"NUL">>, p.n)
      [] p.k = "nl"  -> Rep(<<"NL">>, p.n)
      [] p.k = "sp"  -> Rep(<<"SP">>, p.n)
      [] p.k = "w"   -> Rep(<<"a">>, p.n)
      [] p.k = "pw"  -> Rep(<<"SP", "a", "SP">>, p.n)
      [] OTHER       -> <<"a">> \o Rep(<<"SP", "a">>, p.n - 1)

RECURSIVE Expand(_)
Expand(t) == IF t = <<>> THEN <<>> ELSE PieceChars(Head(t)) \o Expand(Tail(t))

\* Adjacent runs of the same character become one run.
RECURSIVE Coalesce(_)
Coalesce(t) ==
    IF Len(t) < 2 THEN t
    ELSE IF t[1].k = t[2].k /\ t[1].k \in {"nul", "nl", "sp", "w"}
         THEN Coalesce(<<P(t[1].k, t[1].n + t[2].n)>> \o Tail(Tail(t)))
         ELSE <<t[1]>> \o Coalesce(Tail(t))

\* text.replace("\x00", "")
RemoveNul(t) == Coalesce(SelectSeq(t, LAMBDA p : p.k # "nul"))

NewlineRun == 3
NewlineKeep == 2

\* re.sub(r"\n{3,}", "\n\n", text)
CollapseNewlines(t) ==
    [j \in 1..Len(t) |->
        IF t[j].k = "nl" /\ t[j].n >= NewlineRun THEN P("nl", NewlineKeep) ELSE t[j]]

\* str.lstrip(): leading whitespace goes; a leading " a " keeps "a ".
RECURSIVE LStrip(_)
LStrip(t) ==
    IF t = <<>> THEN t
    ELSE IF IsSpace(Head(t)) THEN LStrip(Tail(t))
    ELSE IF Head(t).k = "pw"
         THEN <<P("w", 1), P("sp", 1)>>
              \o (IF Head(t).n > 1 THEN <<P("pw", Head(t).n - 1)>> ELSE <<>>)
              \o Tail(t)
         ELSE t

Front(t) == SubSeq(t, 1, Len(t) - 1)
Last(t) == t[Len(t)]

RECURSIVE RStrip(_)
RStrip(t) ==
    IF t = <<>> THEN t
    ELSE IF IsSpace(Last(t)) THEN RStrip(Front(t))
    ELSE IF Last(t).k = "pw"
         THEN Front(t)
              \o (IF Last(t).n > 1 THEN <<P("pw", Last(t).n - 1)>> ELSE <<>>)
              \o <<P("sp", 1), P("w", 1)>>
         ELSE t

\* str.strip()
Strip(t) == Coalesce(RStrip(LStrip(t)))

_normalize_text_keep_nul(text) == Strip(CollapseNewlines(Coalesce(text)))

\* ValidityAnalyzer._normalize_text
_normalize_text(text) == Strip(CollapseNewlines(RemoveNul(text)))

(***************************************************************************)
(* WORDS.  str.split() of a text, as runs [len, cnt]: cnt words of len     *)
(* letters each.  Texts are coalesced, so a w piece is a whole word.       *)
(***************************************************************************)
RECURSIVE Split(_)
Split(t) ==
    IF t = <<>> THEN <<>>
    ELSE LET p == Head(t) IN
         (CASE p.k = "w"            -> <<[len |-> p.n, cnt |-> 1]>>
            [] p.k \in {"pw", "jw"} -> <<[len |-> 1, cnt |-> p.n]>>
            [] OTHER                -> <<>>) \o Split(Tail(t))

RECURSIVE NWords(_)
NWords(ws) == IF ws = <<>> THEN 0 ELSE Head(ws).cnt + NWords(Tail(ws))

\* words[:k] and words[k:]
RECURSIVE TakeWords(_, _)
TakeWords(ws, k) ==
    IF ws = <<>> \/ k = 0 THEN <<>>
    ELSE IF Head(ws).cnt <= k
         THEN <<Head(ws)>> \o TakeWords(Tail(ws), k - Head(ws).cnt)
         ELSE <<[len |-> Head(ws).len, cnt |-> k]>>

RECURSIVE DropWords(_, _)
DropWords(ws, k) ==
    IF ws = <<>> \/ k = 0 THEN ws
    ELSE IF Head(ws).cnt <= k
         THEN DropWords(Tail(ws), k - Head(ws).cnt)
         ELSE <<[len |-> Head(ws).len, cnt |-> Head(ws).cnt - k]>> \o Tail(ws)

\* The text of one run of words joined by single spaces.
RECURSIVE RunText(_)
RunText(r) ==
    IF r.len = 1 THEN <<P("jw", r.cnt)>>
    ELSE IF r.cnt = 1 THEN <<P("w", r.len)>>
    ELSE <<P("w", r.len), P("sp", 1)>> \o RunText([len |-> r.len, cnt |-> r.cnt - 1])

\* " ".join(words)
RECURSIVE Join(_)
Join(ws) ==
    IF ws = <<>> THEN <<>>
    ELSE IF Len(ws) = 1 THEN RunText(Head(ws))
    ELSE RunText(Head(ws)) \o <<P("sp", 1)>> \o Join(Tail(ws))

\* The loop of _chunk_document: a chunk is closed at every max_words words.
RECURSIVE ChunkWords(_, _)
ChunkWords(ws, max_words) ==
    IF NWords(ws) = 0 THEN <<>>
    ELSE <<Join(TakeWords(ws, max_words))>>
         \o ChunkWords(DropWords(ws, max_words), max_words)

\* A variant that already splits a document of exactly max_words words.
_chunk_document_below_limit(document, max_words) ==
    IF NWords(Split(document)) < max_words
    THEN <<document>>
    ELSE ChunkWords(Split(document), max_words)

\* ValidityAnalyzer._chunk_document
_chunk_document(document, max_words) ==
    IF NWords(Split(document)) <= max_words
    THEN <<document>>
    ELSE ChunkWords(Split(document), max_words)


(***************************************************************************)
(* TAXONOMY (src/failure_library.py).                                      *)
(***************************************************************************)
ALLOWED_MICRO_FAILURE_TYPES ==
    << "circular_reasoning", "causal_leap", "unfalsifiable_claim",
       "missing_counterfactual", "assumption_stacking", "contradictory_claims",
       "evidence_mismatch", "false_dichotomy" >>

MICRO_REASONING_FAILURES ==
    [ circular_reasoning     |-> [severity |-> "high",     actionability |-> "review"],
      causal_leap            |-> [severity |-> "high",     actionability |-> "review"],
      unfalsifiable_claim    |-> [severity |-> "medium",   actionability |-> "monitor"],
      missing_counterfactual |-> [severity |-> "medium",   actionability |-> "monitor"],
      assumption_stacking    |-> [severity |-> "high",     actionability |-> "review"],
      contradictory_claims   |-> [severity |-> "critical", actionability |-> "block"],
      evidence_mismatch      |-> [severity |-> "high",     actionability |-> "review"],
      false_dichotomy        |-> [severity |-> "medium",   actionability |-> "monitor"] ]

ALLOWED_FAILURE_TYPES == ALLOWED_MICRO_FAILURE_TYPES
REASONING_FAILURES == MICRO_REASONING_FAILURES

ALLOWED_STRUCTURAL_FAILURE_TYPES ==
    << "OBJECTIVE_OVERLOADING", "MEANS_ENDS_MISMATCH", "UNBOUNDED_DEFINITIONS",
       "SAFEGUARD_DILUTION", "TEMPORAL_INCOHERENCE" >>

Range(s) == {s[j] : j \in 1..Len(s)}

(***************************************************************************)
(* FINDINGS.  A finding is one element of a JSON list: isdict says whether *)
(* it is an object; a key the object lacks holds None.                     *)
(***************************************************************************)
None == "<none>"

Finding(type, severity, location) ==
    [isdict |-> TRUE, type |-> type, severity |-> severity,
     actionability |-> None, location |-> location]

NotADict == [isdict |-> FALSE, type |-> None, severity |-> None,
             actionability |-> None, location |-> None]

\* Python's order of the type names the model uses (str comparison).
TypeNamesAscending ==
    << "", "MEANS_ENDS_MISMATCH", "OBJECTIVE_OVERLOADING", "SAFEGUARD_DILUTION",
       "TEMPORAL_INCOHERENCE", "UNBOUNDED_DEFINITIONS",
       "assumption_stacking", "causal_leap", "circular_reasoning",
       "contradictory_claims", "evidence_mismatch", "false_dichotomy",
       "invented_type", "missing_counterfactual", "unfalsifiable_claim" >>

TypeRank(name) == CHOOSE j \in 1..Len(TypeNamesAscending) : TypeNamesAscending[j] = name

\* dict.get(key, default)
Get(value, default) == IF value = None THEN default ELSE value

\* A JSON value in a place where a list is expected: t is "absent" (no such
\* key), "list", or "int" (some other JSON type); v holds a list's elements.
Absent == [t |-> "absent", v |-> <<>>]
List(s) == [t |-> "list", v |-> s]
NotAList == [t |-> "int", v |-> <<>>]

\* ValidityAnalyzer._enforce_allowed_failure_types
_enforce_allowed_failure_types(failures) ==
    IF failures.t # "list" THEN <<>>
    ELSE SelectSeq(failures.v,
                   LAMBDA f : f.isdict /\ f.type \in Range(ALLOWED_FAILURE_TYPES))

\* A variant that keeps a severity the oracle supplied.
_normalize_failures_keep_given(failures) ==
    [j \in 1..Len(failures) |->
        IF failures[j].type \in DOMAIN REASONING_FAILURES /\ failures[j].severity = None
        THEN [failures[j] EXCEPT
                 !.severity = REASONING_FAILURES[failures[j].type].severity,
                 !.actionability = REASONING_FAILURES[failures[j].type].actionability]
        ELSE [failures[j] EXCEPT
                 !.actionability = REASONING_FAILURES[failures[j].type].actionability]]

\* ValidityAnalyzer._normalize_failures
_normalize_failures(failures) ==
    [j \in 1..Len(failures) |->
        IF failures[j].type \in DOMAIN REASONING_FAILURES
        THEN [failures[j] EXCEPT
                 !.severity = REASONING_FAILURES[failures[j].type].severity,
                 !.actionability = REASONING_FAILURES[failures[j].type].actionability]
        ELSE failures[j]]

RankCritical == 3
RankHigh == 2
RankMedium == 1

\* ValidityAnalyzer._severity_rank
_severity_rank(sev) ==
    CASE sev = "critical" -> RankCritical
      [] sev = "high"     -> RankHigh
      [] sev = "medium"   -> RankMedium
      [] OTHER            -> 0

\* The sort key of _sorted_failures, and its tuple order.
SortKey(f) == << 0 - _severity_rank(Get(f.severity, "medium")), TypeRank(Get(f.type, "")) >>

KeyLeq(a, b) == a[1] < b[1] \/ (a[1] = b[1] /\ a[2] <= b[2])

\* sorted() is stable: an element goes after the elements whose key is not greater.
RECURSIVE InsertSorted(_, _)
InsertSorted(f, s) ==
    IF s = <<>> THEN <<f>>
    ELSE IF KeyLeq(SortKey(Head(s)), SortKey(f))
         THEN <<Head(s)>> \o InsertSorted(f, Tail(s))
         ELSE <<f>> \o s

RECURSIVE SortedFrom(_, _)
SortedFrom(done, rest) ==
    IF rest = <<>> THEN done
    ELSE SortedFrom(InsertSorted(Head(rest), done), Tail(rest))

\* ValidityAnalyzer._sorted_failures
_sorted_failures(failures) == SortedFrom(<<>>, failures)

PenaltyCritical == 35
PenaltyHigh == 20
PenaltyMedium == 10
ScoreStart == 100

Max(a, b) == IF a >= b THEN a ELSE b
Min(a, b) == IF a <= b THEN a ELSE b

Penalty(f) ==
    LET sev == Get(f.severity, "medium") IN
    CASE sev = "critical" -> PenaltyCritical
      [] sev = "high"     -> PenaltyHigh
      [] sev = "medium"   -> PenaltyMedium
      [] OTHER            -> 0

RECURSIVE SumPenalty(_)
SumPenalty(failures) ==
    IF failures = <<>> THEN 0 ELSE Penalty(Head(failures)) + SumPenalty(Tail(failures))

_compute_score_unclamped(failures) == ScoreStart - SumPenalty(failures)

\* ValidityAnalyzer._compute_score
_compute_score(failures) == Max(0, Min(ScoreStart, ScoreStart - SumPenalty(failures)))

CountSeverity(failures, sev) ==
    Cardinality({j \in 1..Len(failures) : failures[j].severity = sev})

HighForHighRisk == 3
HighForMediumRisk == 1
MediumForMediumRisk == 5
MediumForLowRisk == 2

\* The decision without the rule for medium findings.
_compute_decision_risk_highs_only(failures) ==
    IF \E j \in 1..Len(failures) : failures[j].severity = "critical" THEN "critical"
    ELSE IF CountSeverity(failures, "high") >= HighForHighRisk THEN "high"
    ELSE IF CountSeverity(failures, "high") >= HighForMediumRisk THEN "medium"
    ELSE "low"

\* The decision with high for exactly three high findings.
_compute_decision_risk_exactly_three(failures) ==
    IF \E j \in 1..Len(failures) : failures[j].severity = "critical" THEN "critical"
    ELSE IF CountSeverity(failures, "high") = HighForHighRisk THEN "high"
    ELSE IF CountSeverity(failures, "high") >= HighForMediumRisk THEN "medium"
    ELSE IF CountSeverity(failures, "medium") >= MediumForMediumRisk THEN "medium"
    ELSE "low"

\* The decision with high for five medium findings.
_compute_decision_risk_mediums_high(failures) ==
    IF \E j \in 1..Len(failures) : failures[j].severity = "critical" THEN "critical"
    ELSE IF CountSeverity(failures, "high") >= HighForHighRisk THEN "high"
    ELSE IF CountSeverity(failures, "high") >= HighForMediumRisk THEN "medium"
    ELSE IF CountSeverity(failures, "medium") >= MediumForMediumRisk THEN "high"
    ELSE "low"

\* ValidityAnalyzer._compute_decision_risk
_compute_decision_risk(failures) ==
    IF \E j \in 1..Len(failures) : failures[j].severity = "critical" THEN "critical"
    ELSE IF CountSeverity(failures, "high") >= HighForHighRisk THEN "high"
    ELSE IF CountSeverity(failures, "high") >= HighForMediumRisk THEN "medium"
    ELSE IF CountSeverity(failures, "medium") >= MediumForMediumRisk THEN "medium"
    ELSE IF CountSeverity(failures, "medium") >= MediumForLowRisk THEN "low"
    ELSE "low"

\* ValidityAnalyzer._compute_review_priority
_compute_review_priority(failures) ==
    [ must_fix     |-> SelectSeq(failures, LAMBDA f : Get(f.severity, "medium") = "critical"),
      should_fix   |-> SelectSeq(failures, LAMBDA f : Get(f.severity, "medium") = "high"),
      nice_to_have |-> SelectSeq(failures,
                          LAMBDA f : Get(f.severity, "medium") \notin {"critical", "high"}) ]

\* A slice that cuts nothing.
Prefix_uncut(s, n) == s

\* s[:n]
Prefix(s, n) == SubSeq(s, 1, Min(n, Len(s)))


(***************************************************************************)
(* PAYLOADS.  A payload is a JSON value the oracle returned: top says      *)
(* whether it is an object; the other fields are the keys the code reads   *)
(* or writes, None or Absent when the object lacks the key.                *)
(***************************************************************************)
NoPriorities == [must_fix |-> <<>>, should_fix |-> <<>>, nice_to_have |-> <<>>]

Payload(thesis, claims, failures, micro, structural, overall, meta) ==
    [ top                     |-> "dict",
      thesis                  |-> thesis,
      claims                  |-> claims,
      logical_chain           |-> IF thesis = None THEN None ELSE "chain of " \o thesis,
      failures_detected       |-> failures,
      micro_failures          |-> micro,
      structural_failures     |-> structural,
      counterfactual_tests    |-> List(<<>>),
      assumption_sensitivity  |-> List(<<>>),
      strengths_detected      |-> List(<<>>),
      overall_assessment      |-> overall,
      _meta                   |-> meta,
      total_failures_detected |-> [t |-> "absent", v |-> 0],
      reasoning_score         |-> [t |-> "absent", v |-> 0],
      decision_risk           |-> None,
      review_priorities       |-> NoPriorities,
      top_risk_flags          |-> Absent ]

\* A JSON value that is not an object (a list, a number, a string, null).
NotAnObject == [Payload(None, Absent, Absent, Absent, Absent, None, None) EXCEPT !.top = "list"]

\* The minimal structure _analyze_chunk returns when both parses fail.
FallbackPayload ==
    [Payload("Parse failed", List(<<>>), List(<<>>), Absent, Absent,
             "confidence low: Parse error occurred", "parse_failed")
        EXCEPT !.logical_chain = "empty chain"]

(***************************************************************************)
(* ORACLE TEXT.  A response text is a sequence of tokens: a code fence     *)
(* (three backquotes) with or without the json tag, text that is no JSON,  *)
(* or the text of one JSON value.                                          *)
(***************************************************************************)
FenceJson == [tok |-> "fence_json", val |-> NotAnObject]
Fence == [tok |-> "fence", val |-> NotAnObject]
Junk == [tok |-> "junk", val |-> NotAnObject]
Json(p) == [tok |-> "json", val |-> p]

\* ValidityAnalyzer._clean_json_response
_clean_json_response(text) ==
    LET opened == IF text # <<>> /\ Head(text).tok \in {"fence_json", "fence"}
                  THEN Tail(text) ELSE text
    IN  IF opened # <<>> /\ Last(opened).tok = "fence" THEN Front(opened) ELSE opened

\* json.loads: the text of exactly one JSON value parses; anything else raises
\* JSONDecodeError.
json_loads(text) ==
    IF Len(text) = 1 /\ text[1].tok = "json"
    THEN [ok |-> TRUE, val |-> text[1].val]
    ELSE [ok |-> FALSE, val |-> NotAnObject]

(***************************************************************************)
(* PROMPT (src/prompts.py).  A template is its sequence of literal text    *)
(* and replacement fields, as str.format reads it.  ANALYSIS_PROMPT holds  *)
(* {document}, {taxonomy} and the JSON example, whose first brace opens a  *)
(* replacement field named by the text up to the next colon.               *)
(***************************************************************************)
Lit == [field |-> FALSE, name |-> ""]
Field(name) == [field |-> TRUE, name |-> name]

\* The template with the braces of its JSON example doubled.
ANALYSIS_PROMPT_escaped == << Lit, Field("document"), Lit, Field("taxonomy"), Lit >>

\* prompts.ANALYSIS_PROMPT: its replacement fields in order; the third is the
\* opening brace of the JSON example, read by str.format as a field.
ANALYSIS_PROMPT ==
    << Lit, Field("document"), Lit, Field("taxonomy"), Lit, Field("\n  \"thesis\""), Lit >>

\* The request builder of the specification: it embeds the chunk and the
\* taxonomy and has no other replacement field.
REQUEST_TEMPLATE == << Lit, Field("document"), Lit, Field("taxonomy"), Lit >>

\* str.format(**kwargs): KeyError on a field that is no keyword.
Format(tmpl, keywords) ==
    IF \E j \in 1..Len(tmpl) : tmpl[j].field /\ tmpl[j].name \notin keywords
    THEN [exc |-> "KeyError"] ELSE [exc |-> None]

\* prompts.build_prompt
build_prompt(tmpl, chunk) == Format(tmpl, {"document", "taxonomy"})


(***************************************************************************)
(* SYNTHESIS (ValidityAnalyzer._synthesize and _validate_schema).          *)
(***************************************************************************)
MAX_FAILURES_RETURNED == 10
MAX_SYNTHESIS_ITEMS == 5
TopRiskFlags == 3

Raise(e) == [exc |-> e, val |-> NotAnObject]
Return(v) == [exc |-> None, val |-> v]

\* {k: v for k, v in chunk.items() if k != "_meta"}
StripMeta(chunk) == [chunk EXCEPT !._meta = None]

\* result[key] = result[key][:n] when the key is there; a number has no slice.
CapList(value, n) == IF value.t = "list" THEN List(Prefix(value.v, n)) ELSE value

\* Lines 435-465 of _synthesize: normalisation, the cap and the computed fields.
ApplyNormalization(result) ==
    IF result.top # "dict" THEN Raise("AttributeError")
    ELSE
    LET failures == _sorted_failures(_normalize_failures(
                        _enforce_allowed_failure_types(result.failures_detected)))
        capped == Prefix(failures, MAX_FAILURES_RETURNED)
        lists == << result.claims, result.counterfactual_tests,
                    result.assumption_sensitivity, result.strengths_detected >>
    IN  IF \E j \in 1..Len(lists) : lists[j].t = "int" THEN Raise("TypeError")
        ELSE Return(
          [result EXCEPT
             !.failures_detected = List(capped),
             !.total_failures_detected = [t |-> "int", v |-> Len(failures)],
             !.reasoning_score = [t |-> "int", v |-> _compute_score(capped)],
             !.decision_risk = _compute_decision_risk(capped),
             !.review_priorities = _compute_review_priority(capped),
             !.top_risk_flags =
                 List([j \in 1..Len(Prefix(capped, TopRiskFlags)) |-> capped[j].type]),
             !.claims = CapList(result.claims, MAX_SYNTHESIS_ITEMS * 2),
             !.counterfactual_tests =
                 CapList(result.counterfactual_tests, MAX_SYNTHESIS_ITEMS),
             !.assumption_sensitivity =
                 CapList(result.assumption_sensitivity, MAX_SYNTHESIS_ITEMS),
             !.strengths_detected =
                 CapList(result.strengths_detected, MAX_SYNTHESIS_ITEMS)])

\* A validation that does not ask for the thesis.
_validate_schema_without_thesis(analysis) ==
    /\ analysis.claims.t # "absent"
    /\ analysis.failures_detected.t # "absent"
    /\ analysis.overall_assessment # None
    /\ analysis.decision_risk \in {"critical", "high", "medium", "low"}
    /\ analysis.reasoning_score.t = "int"

\* ValidityAnalyzer._validate_schema
_validate_schema(analysis) ==
    /\ analysis.thesis # None
    /\ analysis.claims.t # "absent"
    /\ analysis.failures_detected.t # "absent"
    /\ analysis.overall_assessment # None
    /\ analysis.decision_risk # None
    /\ analysis.reasoning_score.t # "absent"
    /\ analysis.decision_risk \in {"critical", "high", "medium", "low"}
    /\ analysis.reasoning_score.t = "int"

(***************************************************************************)
(* THE LARGE-DOCUMENT MERGE (src/app.py): merge_analyses and its ranks.    *)
(***************************************************************************)
\* str.lower() on the strings the model uses.
Lower(s) ==
    CASE s = "CRITICAL" -> "critical"
      [] s = "HIGH"     -> "high"
      [] s = "MEDIUM"   -> "medium"
      [] s = "LOW"      -> "low"
      [] OTHER          -> s

\* risk_rank
risk_rank(r) ==
    LET x == Lower(IF r = None THEN "" ELSE r) IN
    CASE x = "low"      -> 1
      [] x = "medium"   -> 2
      [] x = "high"     -> 3
      [] x = "critical" -> 4
      [] OTHER          -> 2

\* sev_rank
sev_rank(sev) ==
    LET x == Lower(IF sev = None THEN "" ELSE sev) IN
    CASE x = "critical" -> 4
      [] x = "high"     -> 3
      [] x = "medium"   -> 2
      [] x = "low"      -> 1
      [] OTHER          -> 2

\* sum(a.get("reasoning_score", 0) for a in analyses)
RECURSIVE SumScores(_)
SumScores(analyses) ==
    IF analyses = <<>> THEN 0
    ELSE (IF Head(analyses).reasoning_score.t = "absent" THEN 0
          ELSE Head(analyses).reasoning_score.v) + SumScores(Tail(analyses))

\* max(analyses, key=...): the first analysis of the highest rank.
Worst(analyses) ==
    LET j == CHOOSE j \in 1..Len(analyses) :
                 /\ \A k \in 1..Len(analyses) :
                        risk_rank(analyses[k].decision_risk) <= risk_rank(analyses[j].decision_risk)
                 /\ \A k \in 1..(j - 1) :
                        risk_rank(analyses[k].decision_risk) < risk_rank(analyses[j].decision_risk)
    IN  analyses[j]

\* all_failures.extend(a.get("failures_detected", []) or []) for each analysis
RECURSIVE AllFailures(_)
AllFailures(analyses) ==
    IF analyses = <<>> THEN <<>>
    ELSE Head(analyses).failures_detected.v \o AllFailures(Tail(analyses))

\* list.sort(key=sev_rank, reverse=True) is stable: an element goes after the
\* elements whose rank is not lower.
RECURSIVE InsertByRank(_, _)
InsertByRank(f, s) ==
    IF s = <<>> THEN <<f>>
    ELSE IF sev_rank(Head(s).severity) >= sev_rank(f.severity)
         THEN <<Head(s)>> \o InsertByRank(f, Tail(s))
         ELSE <<f>> \o s

RECURSIVE SortByRank(_, _)
SortByRank(done, rest) ==
    IF rest = <<>> THEN done
    ELSE SortByRank(InsertByRank(Head(rest), done), Tail(rest))

\* merge_analyses, for a list that is not empty
merge_analyses(analyses) ==
    LET avg_score == SumScores(analyses) \div Len(analyses)
        worst_risk == Lower(Get(Worst(analyses).decision_risk, "medium"))
        all_failures == SortByRank(<<>>, AllFailures(analyses))
    IN  [analyses[1] EXCEPT
            !.reasoning_score = [t |-> "int", v |-> avg_score],
            !.decision_risk = worst_risk,
            !.failures_detected = List(all_failures),
            !.total_failures_detected = [t |-> "int", v |-> Len(all_failures)]]

(***************************************************************************)
(* RESULTS of analyze.  keys is the set of keys of the returned dict; a    *)
(* field whose key is not in keys holds a filler.                          *)
(***************************************************************************)
NoError == [msg |-> None, args |-> <<>>]

Result(keys, success, error, analysis, n, ok, failed, t) ==
    [ outcome |-> "returned", keys |-> keys, success |-> success, error |-> error,
      analysis |-> analysis, chunks_analyzed |-> n, chunks_succeeded |-> ok,
      chunks_failed |-> failed, analysis_time |-> t ]

Failure(error) ==
    Result({"success", "error"}, FALSE, error, NotAnObject, 0, 0, 0, 0)

Running == [Failure(NoError) EXCEPT !.outcome = "running", !.keys = {}]

MinDocLen == 50
MinLenInMessage == 50
MAX_WORDS == 2000

\* len(document) < 50
TooShort(document) == TextLen(document) < MinDocLen

ErrTooShort ==
    [msg |-> "Document too short (minimum {} characters)", args |-> <<MinLenInMessage>>]

ErrTimeout(timeout, succeeded, total) ==
    [msg |-> "Analysis timeout after {}s (succeeded {}/{} chunks)",
     args |-> <<timeout, succeeded, total>>]

ErrAllFailed == [msg |-> "All chunks failed to analyze", args |-> <<>>]
ErrSchema == [msg |-> "Analysis failed schema validation", args |-> <<>>]

\* A variant that lets the exception leave analyze.
analyze_reraise(e) ==
    [Failure([msg |-> e, args |-> <<>>]) EXCEPT !.outcome = "raised", !.keys = {}]

\* except Exception as e: return {"success": False, "error": str(e)}
analyze_except(e) == Failure([msg |-> e, args |-> <<>>])

\* Lines 535-550 of analyze, given what _synthesize returned or raised.
AfterSynthesize(out, n, ok, failed, t) ==
    IF out.exc # None THEN analyze_except(out.exc)
    ELSE IF ~_validate_schema(out.val) THEN Failure(ErrSchema)
    ELSE Result({"success", "analysis", "chunks_analyzed", "chunks_succeeded",
                 "chunks_failed", "analysis_time"},
                TRUE, NoError, out.val, n, ok, failed, t)


(***************************************************************************)
(* INPUTS: the documents, the timeouts and the oracle's replies.           *)
(***************************************************************************)
MaxChunks == 2
MaxElapsed == 3

\* Documents around the minimum length, and documents of 1..MaxChunks chunks.
ShortDocs ==
    { << P("w", 3), P("sp", 1), P("w", 5) >>,
      << P("w", MinDocLen - 1) >>,
      << P("sp", 2), P("w", MinDocLen - 2), P("nl", 3) >>,
      << P("w", 24), P("nul", 2), P("w", 24) >>,
      << P("w", 23), P("nl", 2), P("nul", 1), P("nl", 2), P("w", 23) >>,
      << P("nl", 1), P("pw", 17), P("nul", 4) >> }

LongDocs ==
    { << P("w", MinDocLen) >>,
      << P("w", 24), P("nl", 4), P("w", 24) >>,
      << P("nul", 1), P("pw", MAX_WORDS), P("nl", 5) >> }
    \cup { << P("pw", (k - 1) * MAX_WORDS + 1) >> : k \in 2..MaxChunks }

DocChoices == ShortDocs \cup LongDocs

TimeoutChoices == {1, 2}

F_med == Finding("false_dichotomy", "high", "para 3")
F_high == Finding("causal_leap", "low", "para 1")
F_crit == Finding("contradictory_claims", None, "para 2")
F_invented == Finding("invented_type", "critical", "para 4")
F_struct == Finding("MEANS_ENDS_MISMATCH", "high", "Section 2")

P_one == Payload("T1", List(<<1>>), List(<<F_med, F_invented, NotADict, F_high>>),
                 List(<<F_high>>), List(<<F_struct>>), "O1", None)
P_two == Payload("T2", List(<<2>>), NotAList, List(<<F_invented>>), Absent, "O2", "dict")
P_no_thesis == Payload(None, List(<<4>>), Absent, Absent, Absent, "O4", None)
P_claims_int == Payload("T5", NotAList, List(<<>>), Absent, Absent, "O5", None)
P_meta_failed == Payload("T6", List(<<>>), List(<<>>), Absent, Absent, "O6", "parse_failed")
P_meta_str == Payload("T7", List(<<>>), List(<<>>), Absent, Absent, "O7", "nondict")

OraclePayloads ==
    { P_one, P_two, P_no_thesis, P_claims_int, P_meta_failed, P_meta_str,
      NotAnObject }

OracleTexts ==
    { << Json(q) >> : q \in OraclePayloads }
    \cup { << FenceJson, Json(P_one), Fence >>, << Fence, Json(P_two) >>,
           << Junk >>, << Fence, Junk, Json(P_one), Fence >> }

\* What client.chat.completions.create does: it raises (transport, auth), or
\* returns a response text.
OracleReplies ==
    { [raises |-> TRUE, text |-> <<>>] }
    \cup { [raises |-> FALSE, text |-> t] : t \in OracleTexts }

\* _analyze_chunk has not been called yet.
NoChunkResult == Raise("NotCalled")

\* _repair_json has not been called in the current frame.
NoRepair == [called |-> FALSE, raises |-> FALSE, text |-> <<>>]

\* _repair_json, lines 242-250: the call raises, or the cleaned text of the
\* response is returned.
Repaired(reply) ==
    [called |-> TRUE, raises |-> reply.raises,
     text |-> IF reply.raises THEN <<>> ELSE _clean_json_response(reply.text)]

(***************************************************************************)
(* STATE of one call analyze(raw, timeout_seconds).                        *)
(***************************************************************************)
VARIABLES
    template,        \* the prompt template build_prompt formats
    raw,             \* the document argument
    timeout_seconds, \* the timeout argument
    pc,              \* start, loop, repair, synth_repair, done
    document,        \* the normalized document
    chunks,          \* _chunk_document's list
    i,               \* the loop's index of the next chunk, from 1
    chunk_results,   \* the payloads of the chunks that succeeded
    chunk_failures,  \* the count of chunks that failed
    elapsed,         \* time.time() - start_time
    cleaned,         \* the text a repair call is sent
    clean_chunks,    \* _synthesize's list of payloads without _meta
    result,          \* what analyze returned
    calls,           \* the number of oracle calls made so far, by kind
    chunker_calls,   \* how often _chunk_document was called
    raised,          \* the chunks whose analysis raised an exception
    chunk_result,    \* what the latest call of _analyze_chunk returned or raised
    repaired         \* what the latest call of _repair_json returned or raised

\* The state of a call of the scoring functions on a list of findings.
VARIABLES
    failures,        \* the argument: a list of findings
    score,           \* what _compute_score returned
    risk,            \* what _compute_decision_risk returned
    fpc              \* idle, input, scored, done

\* The state of calls of the other functions on their own.
VARIABLES
    other,           \* a second list of findings, to compare with failures
    ret,             \* what the function returned for failures
    ret_other,       \* what the function returned for other
    analyses,        \* merge_analyses' argument (src/app.py)
    merged,          \* what merge_analyses returned
    chunk_input,     \* _chunk_document's document argument
    max_words,       \* _chunk_document's max_words argument
    chunk_output     \* what _chunk_document returned

CallVars == << other, ret, ret_other, analyses, merged, chunk_input, max_words,
               chunk_output >>

\* The state of the run handler of the page (src/app.py): the keys of
\* st.session_state, and the handler's own position and locals.
VARIABLES
    doc_text,        \* st.session_state["doc_text"]
    large_mode,      \* st.session_state["large_mode"]
    is_running,      \* st.session_state["is_running"]
    last_result,     \* st.session_state["last_result"]
    last_doc_hash,   \* st.session_state["last_doc_hash"]
    run_pc,          \* idle, or analyzing: inside the try block of the handler
    document_text,   \* the handler's document_text
    doc_hash,        \* the handler's doc_hash
    shown,           \* what the latest click showed: a result or an error
    chunk_payloads,  \* large mode: the payload the oracle gives for each chunk
    failed           \* large mode: the count of chunks whose analysis failed

SessionVars == << doc_text, large_mode, is_running, last_result, last_doc_hash,
                  run_pc, document_text, doc_hash, shown, chunk_payloads, failed >>

\* None as the value of last_result; a stored result has isnone FALSE.
NoResult == [isnone |-> TRUE, success |-> FALSE, of |-> "", variant |-> 0, path |-> ""]

\* A text of the page: its identity, its length and its length when stripped.
Doc(id, n, stripped) == [id |-> id, len |-> n, stripped |-> stripped]

\* The empty text area.
NoDoc == Doc("", 0, 0)

\* None as the value of last_doc_hash.
NoHash == [isnone |-> TRUE, sha256 |-> <<>>]

\* The page before any document was entered (lines 335-344).
SessionIdle ==
    /\ doc_text = NoDoc
    /\ large_mode = FALSE
    /\ is_running = FALSE
    /\ last_result = NoResult
    /\ last_doc_hash = NoHash
    /\ run_pc = "idle"
    /\ document_text = NoDoc
    /\ doc_hash = NoHash
    /\ shown = NoResult
    /\ chunk_payloads = <<>>
    /\ failed = 0

vars == << template, raw, timeout_seconds, pc, document, chunks, i, chunk_results,
           chunk_failures, elapsed, cleaned, clean_chunks, result, calls,
           chunker_calls, raised, chunk_result, repaired, failures, score, risk,
           fpc, CallVars, SessionVars >>

CallsIdle ==
    /\ other = <<>>
    /\ ret = None
    /\ ret_other = None
    /\ analyses = <<>>
    /\ merged = None
    /\ chunk_input = <<>>
    /\ max_words = 0
    /\ chunk_output = <<>>

ScoringIdle ==
    /\ failures = <<>>
    /\ score = 0
    /\ risk = None
    /\ fpc = "idle"
    /\ CallsIdle

Templates == {ANALYSIS_PROMPT, REQUEST_TEMPLATE}

Init ==
    /\ template \in Templates
    /\ raw \in DocChoices
    /\ timeout_seconds \in TimeoutChoices
    /\ pc = "start"
    /\ document = <<>>
    /\ chunks = <<>>
    /\ i = 0
    /\ chunk_results = <<>>
    /\ chunk_failures = 0
    /\ elapsed = 0
    /\ cleaned = <<>>
    /\ clean_chunks = <<>>
    /\ result = Running
    /\ calls = [analysis |-> 0, repair |-> 0, synthesis |-> 0]
    /\ chunker_calls = 0
    /\ raised = {}
    /\ chunk_result = NoChunkResult
    /\ repaired = NoRepair
    /\ ScoringIdle
    /\ SessionIdle

\* Time passes while a step runs: none that the clock shows, or a second.
Steps == {d \in {0, 1} : elapsed + d <= MaxElapsed}

\* What no step of analyze changes: its arguments and the template, and the
\* state of the scoring functions' calls.
Inputs == << template, raw, timeout_seconds, failures, score, risk, fpc, CallVars,
             SessionVars >>

Done(r) ==
    /\ pc' = "done"
    /\ result' = r

\* A variant that lets one more second pass before it stops.
TimedOut_late == elapsed > timeout_seconds + 1

\* time.time() - start_time > timeout_seconds
TimedOut == elapsed > timeout_seconds

\* A variant that ends the run at the first chunk that raises.
chunk_except_abort(e) ==
    [continues |-> FALSE, error |-> [msg |-> "Model error on chunk", args |-> <<>>]]

\* except Exception: chunk_failures += 1; continue  (lines 525-527)
chunk_except(e) == [continues |-> TRUE, error |-> NoError]

\* A variant that does not look at the parse_failed flag.
ChunkOutcome_flag_ignored(q) ==
    IF q.top = "dict" /\ q._meta = "nondict" THEN "AttributeError" ELSE "ok"

\* Lines 519-523: what analyze does with the value _analyze_chunk returned.
ChunkOutcome(q) ==
    IF q.top = "dict" /\ q._meta = "nondict" THEN "AttributeError"
    ELSE IF q.top = "dict" /\ q._meta = "parse_failed" THEN "parse_failed"
    ELSE "ok"

\* A variant that does not count a chunk whose analysis raised.
EndIteration_uncounted(outcome, q, dt) ==
    /\ elapsed' = elapsed + dt
    /\ cleaned' = <<>>
    /\ chunk_results' = IF outcome = "ok" THEN Append(chunk_results, q) ELSE chunk_results
    /\ raised' = IF outcome \in {"ok", "parse_failed"} THEN raised ELSE raised \cup {i}
    /\ chunk_result' = IF outcome \in {"KeyError", "APIError"}
                       THEN Raise(outcome) ELSE Return(q)
    /\ pc' = "loop"
    /\ i' = i + 1
    /\ chunk_failures' = IF outcome = "parse_failed" THEN chunk_failures + 1
                         ELSE chunk_failures
    /\ UNCHANGED result

\* The end of one loop iteration: outcome is ok, parse_failed or an exception.
EndIteration(outcome, q, dt) ==
    /\ elapsed' = elapsed + dt
    /\ cleaned' = <<>>
    /\ chunk_results' = IF outcome = "ok" THEN Append(chunk_results, q) ELSE chunk_results
    /\ raised' = IF outcome \in {"ok", "parse_failed"} THEN raised ELSE raised \cup {i}
    /\ chunk_result' = IF outcome \in {"KeyError", "APIError"}
                       THEN Raise(outcome) ELSE Return(q)
    /\ IF outcome \in {"ok", "parse_failed"} \/ chunk_except(outcome).continues
       THEN /\ pc' = "loop"
            /\ i' = i + 1
            /\ chunk_failures' = IF outcome = "ok" THEN chunk_failures
                                 ELSE chunk_failures + 1
            /\ UNCHANGED result
       ELSE /\ Done(Failure(chunk_except(outcome).error))
            /\ UNCHANGED << i, chunk_failures >>

\* The condition under which analyze is at each of its steps.
AtStart == pc = "start"
AtChunk == pc = "loop" /\ i <= Len(chunks)
AtLoopEnd == pc = "loop" /\ i > Len(chunks)
AtRepair == pc = "repair"
AtSynthesisRepair == pc = "synth_repair"

\* analyze, lines 491-500: the document is too short.
TooShortReturn ==
    /\ AtStart
    /\ TooShort(_normalize_text(raw))
    /\ \E dt \in Steps : elapsed' = elapsed + dt
    /\ document' = _normalize_text(raw)
    /\ Done(Failure(ErrTooShort))
    /\ UNCHANGED << Inputs, chunks, i, chunk_results, chunk_failures, cleaned,
                    clean_chunks, calls, chunker_calls, raised, chunk_result,
                    repaired >>

\* analyze, lines 491-505: the document is chunked and the loop begins.
StartChunks ==
    /\ AtStart
    /\ ~TooShort(_normalize_text(raw))
    /\ \E dt \in Steps : elapsed' = elapsed + dt
    /\ document' = _normalize_text(raw)
    /\ chunks' = _chunk_document(_normalize_text(raw), MAX_WORDS)
    /\ chunker_calls' = chunker_calls + 1
    /\ pc' = "loop"
    /\ i' = 1
    /\ UNCHANGED << Inputs, chunk_results, chunk_failures, cleaned, clean_chunks,
                    result, calls, raised, chunk_result, repaired >>

\* analyze, lines 509-513: the check before a chunk finds the time over.
TimeoutReturn ==
    /\ AtChunk
    /\ TimedOut
    /\ Done(Failure(ErrTimeout(timeout_seconds, Len(chunk_results), Len(chunks))))
    /\ UNCHANGED << Inputs, document, chunks, i, chunk_results, chunk_failures,
                    elapsed, cleaned, clean_chunks, calls, chunker_calls, raised,
                    chunk_result, repaired >>

\* _analyze_chunk, line 356: build_prompt raises, before any oracle call.
PromptRaises ==
    /\ AtChunk
    /\ ~TimedOut
    /\ build_prompt(template, chunks[i]).exc # None
    /\ \E dt \in Steps : EndIteration(build_prompt(template, chunks[i]).exc, NotAnObject, dt)
    /\ repaired' = NoRepair
    /\ UNCHANGED << Inputs, document, chunks, clean_chunks, calls, chunker_calls >>

\* _analyze_chunk, lines 358-376: the analysis call and the first parse.
AnalysisCall ==
    /\ AtChunk
    /\ ~TimedOut
    /\ build_prompt(template, chunks[i]).exc = None
    /\ calls' = [calls EXCEPT !.analysis = @ + 1]
    /\ repaired' = NoRepair
    /\ \E reply \in OracleReplies, dt \in Steps :
         LET text == _clean_json_response(reply.text)
             parsed == json_loads(text)
         IN  IF reply.raises THEN EndIteration("APIError", NotAnObject, dt)
             ELSE IF parsed.ok THEN EndIteration(ChunkOutcome(parsed.val), parsed.val, dt)
             ELSE /\ pc' = "repair"
                  /\ cleaned' = text
                  /\ elapsed' = elapsed + dt
                  /\ UNCHANGED << i, chunk_results, chunk_failures, result, raised,
                                  chunk_result >>
    /\ UNCHANGED << Inputs, document, chunks, clean_chunks, chunker_calls >>

\* A variant that asks for a second repair when the first does not parse.
RepairCall_retry ==
    /\ AtRepair
    /\ calls' = [calls EXCEPT !.repair = @ + 1]
    /\ \E reply \in OracleReplies, dt \in Steps :
         LET parsed == json_loads(_clean_json_response(reply.text))
         IN  IF (reply.raises \/ ~parsed.ok) /\ calls.repair < calls.analysis
             THEN /\ elapsed' = elapsed + dt
                  /\ repaired' = Repaired(reply)
                  /\ UNCHANGED << pc, i, cleaned, chunk_results, chunk_failures,
                                  result, raised, chunk_result >>
             ELSE /\ repaired' = Repaired(reply)
                  /\ EndIteration(ChunkOutcome(IF reply.raises \/ ~parsed.ok
                                            THEN FallbackPayload ELSE parsed.val),
                               IF reply.raises \/ ~parsed.ok
                               THEN FallbackPayload ELSE parsed.val, dt)
    /\ UNCHANGED << Inputs, document, chunks, clean_chunks, chunker_calls >>

\* _analyze_chunk, lines 371-389, with _repair_json: the one repair call.
RepairCall ==
    /\ AtRepair
    /\ calls' = [calls EXCEPT !.repair = @ + 1]
    /\ \E reply \in OracleReplies, dt \in Steps :
         LET parsed == json_loads(_clean_json_response(reply.text))
             returned == IF reply.raises \/ ~parsed.ok THEN FallbackPayload ELSE parsed.val
         IN  /\ repaired' = Repaired(reply)
             /\ EndIteration(ChunkOutcome(returned), returned, dt)
    /\ UNCHANGED << Inputs, document, chunks, clean_chunks, chunker_calls >>

\* analyze, lines 529-533: no chunk succeeded.
AllFailedReturn ==
    /\ AtLoopEnd
    /\ chunk_results = <<>>
    /\ Done(Failure(ErrAllFailed))
    /\ UNCHANGED << Inputs, document, chunks, i, chunk_results, chunk_failures,
                    elapsed, cleaned, clean_chunks, calls, chunker_calls, raised,
                    chunk_result, repaired >>

AllObjects(results) == \A j \in 1..Len(results) : results[j].top = "dict"

Finish(out, dt) ==
    /\ elapsed' = elapsed + dt
    /\ Done(AfterSynthesize(out, Len(chunks), Len(chunk_results), chunk_failures,
                            elapsed + dt))

\* _synthesize without an oracle call: chunk.items() raises on a payload that
\* is no object (line 396), or there is one payload (lines 399-400).
SynthesizeOne ==
    /\ AtLoopEnd
    /\ chunk_results # <<>>
    /\ ~AllObjects(chunk_results) \/ Len(chunk_results) = 1
    /\ clean_chunks' = IF AllObjects(chunk_results)
                       THEN [j \in 1..Len(chunk_results) |-> StripMeta(chunk_results[j])]
                       ELSE <<>>
    /\ \E dt \in Steps :
         Finish(IF AllObjects(chunk_results)
                THEN ApplyNormalization(StripMeta(chunk_results[1]))
                ELSE Raise("AttributeError"), dt)
    /\ UNCHANGED << Inputs, document, chunks, i, chunk_results, chunk_failures,
                    cleaned, calls, chunker_calls, raised, chunk_result, repaired >>

\* _synthesize, lines 401-426: the synthesis call and the first parse.
SynthesisCall ==
    /\ AtLoopEnd
    /\ Len(chunk_results) > 1
    /\ AllObjects(chunk_results)
    /\ clean_chunks' = [j \in 1..Len(chunk_results) |-> StripMeta(chunk_results[j])]
    /\ calls' = [calls EXCEPT !.synthesis = @ + 1]
    /\ repaired' = NoRepair
    /\ \E reply \in OracleReplies, dt \in Steps :
         LET text == _clean_json_response(reply.text)
             parsed == json_loads(text)
         IN  IF reply.raises THEN Finish(Raise("APIError"), dt) /\ UNCHANGED cleaned
             ELSE IF parsed.ok
                  THEN Finish(ApplyNormalization(parsed.val), dt) /\ UNCHANGED cleaned
             ELSE /\ pc' = "synth_repair"
                  /\ cleaned' = text
                  /\ elapsed' = elapsed + dt
                  /\ UNCHANGED result
    /\ UNCHANGED << Inputs, document, chunks, i, chunk_results, chunk_failures,
                    chunker_calls, raised, chunk_result >>

\* _synthesize, lines 427-433: the repair call, or the first chunk's payload.
SynthesisRepairCall ==
    /\ AtSynthesisRepair
    /\ calls' = [calls EXCEPT !.repair = @ + 1]
    /\ cleaned' = <<>>
    /\ \E reply \in OracleReplies, dt \in Steps :
         LET parsed == json_loads(_clean_json_response(reply.text))
         IN  /\ repaired' = Repaired(reply)
             /\ Finish(ApplyNormalization(IF reply.raises \/ ~parsed.ok
                                          THEN clean_chunks[1] ELSE parsed.val), dt)
    /\ UNCHANGED << Inputs, document, chunks, i, chunk_results, chunk_failures,
                    clean_chunks, chunker_calls, raised, chunk_result >>

Next ==
    \/ TooShortReturn
    \/ StartChunks
    \/ TimeoutReturn
    \/ PromptRaises
    \/ AnalysisCall
    \/ RepairCall
    \/ AllFailedReturn
    \/ SynthesizeOne
    \/ SynthesisCall
    \/ SynthesisRepairCall

Spec == Init /\ [][Next]_vars

\* analyze as shipped: build_prompt formats ANALYSIS_PROMPT (src/prompts.py).
InitShipped ==
    /\ Init
    /\ template = ANALYSIS_PROMPT

NextShipped ==
    \/ TooShortReturn
    \/ StartChunks
    \/ TimeoutReturn
    \/ PromptRaises
    \/ AllFailedReturn

SpecShipped == InitShipped /\ [][NextShipped]_vars


(***************************************************************************)
(* THE SCORING FUNCTIONS on their own: _compute_score and                  *)
(* _compute_decision_risk applied to a list of findings of any severities. *)
(***************************************************************************)
MaxFindings == 5

\* A finding's severity when it is scored: one of the scale.  The findings
\* that _synthesize passes on (lines 436-451) have been through
\* _normalize_failures, which sets each one's severity from the taxonomy.
SeverityChoices == {"critical", "high", "medium", "low"}

RECURSIVE ListsUpTo(_, _)
ListsUpTo(S, n) ==
    IF n = 0 THEN {<<>>}
    ELSE ListsUpTo(S, n - 1)
         \cup {Append(l, x) : l \in {m \in ListsUpTo(S, n - 1) : Len(m) = n - 1}, x \in S}

\* The severities are what the functions read; the lists are kept in one order
\* of severities, the functions being sums and counts over the list.
SeverityOrder == << "critical", "high", "medium", "low" >>
SeverityIndex(sev) == CHOOSE j \in 1..Len(SeverityOrder) : SeverityOrder[j] = sev

FindingLists ==
    { [j \in 1..Len(l) |-> Finding("causal_leap", l[j], "para 1")] :
        l \in { m \in ListsUpTo(SeverityChoices, MaxFindings) :
                  \A j \in 1..(Len(m) - 1) : SeverityIndex(m[j]) <= SeverityIndex(m[j + 1]) } }

AnalyzeIdle ==
    /\ template = ANALYSIS_PROMPT
    /\ raw = <<>>
    /\ timeout_seconds = 60
    /\ pc = "idle"
    /\ document = <<>>
    /\ chunks = <<>>
    /\ i = 0
    /\ chunk_results = <<>>
    /\ chunk_failures = 0
    /\ elapsed = 0
    /\ cleaned = <<>>
    /\ clean_chunks = <<>>
    /\ result = Running
    /\ calls = [analysis |-> 0, repair |-> 0, synthesis |-> 0]
    /\ chunker_calls = 0
    /\ raised = {}
    /\ chunk_result = NoChunkResult
    /\ repaired = NoRepair

AnalyzeVars == << template, raw, timeout_seconds, pc, document, chunks, i,
                  chunk_results, chunk_failures, elapsed, cleaned, clean_chunks,
                  result, calls, chunker_calls, raised, chunk_result, repaired >>

InitScore ==
    /\ AnalyzeIdle
    /\ SessionIdle
    /\ failures \in FindingLists
    /\ score = 0
    /\ risk = None
    /\ fpc = "input"
    /\ CallsIdle

ComputeScore ==
    /\ fpc = "input"
    /\ score' = _compute_score(failures)
    /\ fpc' = "scored"
    /\ UNCHANGED << AnalyzeVars, SessionVars, failures, risk, CallVars >>

ComputeDecisionRisk ==
    /\ fpc = "scored"
    /\ risk' = _compute_decision_risk(failures)
    /\ fpc' = "done"
    /\ UNCHANGED << AnalyzeVars, SessionVars, failures, score, CallVars >>

NextScore ==
    \/ ComputeScore
    \/ ComputeDecisionRisk

SpecScore == InitScore /\ [][NextScore]_vars

(***************************************************************************)
(* THE DECISION on two lists: _compute_decision_risk applied to a list and *)
(* to the list with one more finding, or to a second list.                 *)
(***************************************************************************)
MaxOther == 3

\* A finding's severity in these calls: one of the scale, or no severity key.
AnySeverity == SeverityChoices \cup {None}
AnySeverityOrder == << "critical", "high", "medium", "low", None >>
AnySeverityIndex(sev) ==
    CHOOSE j \in 1..Len(AnySeverityOrder) : AnySeverityOrder[j] = sev

AnyFindingLists(n) ==
    { [j \in 1..Len(l) |-> Finding("causal_leap", l[j], "para 1")] :
        l \in { m \in ListsUpTo(AnySeverity, n) :
                  \A j \in 1..(Len(m) - 1) :
                      AnySeverityIndex(m[j]) <= AnySeverityIndex(m[j + 1]) } }

InitRisk ==
    /\ AnalyzeIdle
    /\ SessionIdle
    /\ failures \in AnyFindingLists(MaxFindings)
    /\ score = 0
    /\ risk = None
    /\ fpc = "input"
    /\ CallsIdle

\* decision_risk of F and of F plus x
AddFinding ==
    /\ fpc = "input"
    /\ \E sev \in AnySeverity :
          other' = Append(failures, Finding("causal_leap", sev, "para 2"))
    /\ ret' = _compute_decision_risk(failures)
    /\ ret_other' = _compute_decision_risk(other')
    /\ fpc' = "added"
    /\ UNCHANGED << AnalyzeVars, SessionVars, failures, score, risk, analyses, merged,
                    chunk_input, max_words, chunk_output >>

\* decision_risk of A and of B
CompareLists ==
    /\ fpc = "input"
    /\ other' \in AnyFindingLists(MaxOther)
    /\ ret' = _compute_decision_risk(failures)
    /\ ret_other' = _compute_decision_risk(other')
    /\ fpc' = "compared"
    /\ UNCHANGED << AnalyzeVars, SessionVars, failures, score, risk, analyses, merged,
                    chunk_input, max_words, chunk_output >>

NextRisk ==
    \/ AddFinding
    \/ CompareLists

SpecRisk == InitRisk /\ [][NextRisk]_vars

(***************************************************************************)
(* THE NORMALISATION of _synthesize (lines 435-465) on its own: applied to *)
(* a payload whose failures_detected is a list of findings as the oracle   *)
(* wrote them, and to the same payload with the findings in another order. *)
(***************************************************************************)
MaxSynthFindings == 3

\* Findings as an oracle writes them: a type of the taxonomy or an invented
\* one, a severity of its own choosing, a location.
SynthTypes == {"causal_leap", "contradictory_claims", "false_dichotomy", "invented_type"}
SynthLocations == {"para 1", "para 2"}
SynthFindings == {Finding(t, "low", l) : t \in SynthTypes, l \in SynthLocations}

SynthPayload(findings) ==
    Payload("T1", List(<<1>>), List(findings), Absent, Absent, "O1", None)

\* The orders in which the findings of a list can arrive.
Bijections(n) == {p \in [1..n -> 1..n] : \A a, b \in 1..n : p[a] = p[b] => a = b}
Orders(list) == {[j \in 1..Len(list) |-> list[p[j]]] : p \in Bijections(Len(list))}

InitSynth ==
    /\ AnalyzeIdle
    /\ SessionIdle
    /\ failures \in ListsUpTo(SynthFindings, MaxSynthFindings)
    /\ score = 0
    /\ risk = None
    /\ fpc = "input"
    /\ CallsIdle

Normalize ==
    /\ fpc = "input"
    /\ other' \in Orders(failures)
    /\ ret' = ApplyNormalization(SynthPayload(failures)).val
    /\ ret_other' = ApplyNormalization(SynthPayload(other')).val
    /\ fpc' = "normalized"
    /\ UNCHANGED << AnalyzeVars, SessionVars, failures, score, risk, analyses, merged,
                    chunk_input, max_words, chunk_output >>

NextSynth == Normalize

SpecSynth == InitSynth /\ [][NextSynth]_vars

(***************************************************************************)
(* THE LARGE-DOCUMENT PATH of the run handler (src/app.py, lines 507-521): *)
(* the analyses that analyze returned for the chunks are merged.           *)
(***************************************************************************)
MaxAnalyses == 2
MaxMergeFindings == 2

MergeFindings == {Finding("causal_leap", "low", "para 1"),
                  Finding("false_dichotomy", "low", "para 1")}

\* The structural findings of a chunk's payload: none, or one with the key
\* (MEANS_ENDS_MISMATCH, Section 2) of severity medium or high.
StructuralChoices ==
    { <<>>,
      << Finding("MEANS_ENDS_MISMATCH", "medium", "Section 2") >>,
      << Finding("MEANS_ENDS_MISMATCH", "high", "Section 2") >> }

\* The analysis analyze returns for a chunk whose payload has these findings.
ChunkAnalysis(findings, structural) ==
    ApplyNormalization(Payload("T1", List(<<1>>), List(findings), Absent,
                               List(structural), "O1", None)).val

ChunkAnalyses ==
    { ChunkAnalysis(f, st) : f \in ListsUpTo(MergeFindings, MaxMergeFindings),
                             st \in StructuralChoices }

InitMerge ==
    /\ AnalyzeIdle
    /\ SessionIdle
    /\ failures = <<>>
    /\ score = 0
    /\ risk = None
    /\ fpc = "input"
    /\ other = <<>>
    /\ ret = None
    /\ ret_other = None
    /\ analyses \in ListsUpTo(ChunkAnalyses, MaxAnalyses) \ {<<>>}
    /\ merged = None
    /\ chunk_input = <<>>
    /\ max_words = 0
    /\ chunk_output = <<>>

MergeAnalyses ==
    /\ fpc = "input"
    /\ merged' = merge_analyses(analyses)
    /\ fpc' = "merged"
    /\ UNCHANGED << AnalyzeVars, SessionVars, failures, score, risk, other, ret, ret_other,
                    analyses, chunk_input, max_words, chunk_output >>

NextMerge == MergeAnalyses

SpecMerge == InitMerge /\ [][NextMerge]_vars

(***************************************************************************)
(* THE CHUNKER on its own: _chunk_document applied to a normalized         *)
(* document and a chunk size.                                              *)
(***************************************************************************)
MaxPieces == 4
MaxChunkWords == 3

ChunkPieces ==
    { P("w", 1), P("w", 2), P("sp", 1), P("sp", 2), P("nl", 1), P("nl", 4),
      P("nul", 1), P("pw", 2) }

\* Documents as analyze passes them on: through _normalize_text (line 494).
ChunkDocuments == {_normalize_text(t) : t \in ListsUpTo(ChunkPieces, MaxPieces)}

InitChunk ==
    /\ AnalyzeIdle
    /\ SessionIdle
    /\ failures = <<>>
    /\ score = 0
    /\ risk = None
    /\ fpc = "input"
    /\ other = <<>>
    /\ ret = None
    /\ ret_other = None
    /\ analyses = <<>>
    /\ merged = None
    /\ chunk_input \in ChunkDocuments
    /\ max_words \in 1..MaxChunkWords
    /\ chunk_output = <<>>

ChunkDocument ==
    /\ fpc = "input"
    /\ chunk_output' = _chunk_document(chunk_input, max_words)
    /\ fpc' = "chunked"
    /\ UNCHANGED << AnalyzeVars, SessionVars, failures, score, risk, other, ret, ret_other,
                    analyses, merged, chunk_input, max_words >>

NextChunk == ChunkDocument

SpecChunk == InitChunk /\ [][NextChunk]_vars

(***************************************************************************)
(* THE LARGE-DOCUMENT LOOP of the run handler (src/app.py, lines 507-521): *)
(* analyze is called on each chunk, the analyses of the chunks that        *)
(* succeeded are merged.  Each chunk is short enough for one oracle call,  *)
(* so analyze returns what it makes of the one payload the oracle gives.   *)
(***************************************************************************)
MaxLargeChunks == 2

Copies(f, n) == [j \in 1..n |-> f]

\* The findings of a chunk's payload, as the oracle writes them: few, or more
\* than MAX_FAILURES_RETURNED, with invented types and non-objects among them.
LargeFindingLists ==
    { <<>>,
      << Finding("false_dichotomy", "low", "para 1") >>,
      << Finding("contradictory_claims", "low", "para 1"),
         Finding("unfalsifiable_claim", "critical", "para 2") >>,
      Copies(Finding("contradictory_claims", "low", "para 3"), MAX_FAILURES_RETURNED + 1),
      Copies(Finding("false_dichotomy", "high", "para 4"), 6)
          \o Copies(Finding("causal_leap", "low", "para 5"), 6),
      Copies(Finding("invented_type", "critical", "para 6"), 3)
          \o Copies(Finding("false_dichotomy", None, "para 7"), MAX_FAILURES_RETURNED),
      << NotADict >> \o Copies(Finding("causal_leap", "medium", "para 8"),
                               MAX_FAILURES_RETURNED + 1) }

\* The payloads: one for each list of findings, and one without a thesis.
LargePayloads == {SynthPayload(l) : l \in LargeFindingLists} \cup {P_no_thesis}

\* analyzer.analyze(ch) for a chunk of one oracle call that returns payload:
\* lines 535-550 of analyze after _synthesize of the one payload.
AnalyzeOne(payload) ==
    AfterSynthesize(ApplyNormalization(StripMeta(payload)), 1, 1, 0, 0)

InitLarge ==
    /\ AnalyzeIdle
    /\ failures = <<>>
    /\ score = 0
    /\ risk = None
    /\ fpc = "large"
    /\ CallsIdle
    /\ doc_text = NoDoc
    /\ large_mode = TRUE
    /\ is_running = TRUE
    /\ last_result = NoResult
    /\ last_doc_hash = NoHash
    /\ run_pc = "analyzing"
    /\ document_text = NoDoc
    /\ doc_hash = NoHash
    /\ shown = NoResult
    /\ chunk_payloads \in ListsUpTo(LargePayloads, MaxLargeChunks) \ {<<>>}
    /\ failed = 0

\* Lines 510-515: one iteration of the loop over the chunks.
LargeAnalyzeChunk ==
    /\ fpc = "large"
    /\ Len(analyses) + failed < Len(chunk_payloads)
    /\ LET r == AnalyzeOne(chunk_payloads[Len(analyses) + failed + 1])
       IN  IF r.success /\ "analysis" \in r.keys
           THEN /\ analyses' = Append(analyses, r.analysis)
                /\ UNCHANGED failed
           ELSE /\ failed' = failed + 1
                /\ UNCHANGED analyses
    /\ UNCHANGED << AnalyzeVars, failures, score, risk, fpc, other, ret, ret_other,
                    merged, chunk_input, max_words, chunk_output, doc_text,
                    large_mode, is_running, last_result, last_doc_hash, run_pc,
                    document_text, doc_hash, shown, chunk_payloads >>

\* Lines 517-521: the merge of the analyses obtained.
LargeMerge ==
    /\ fpc = "large"
    /\ Len(analyses) + failed = Len(chunk_payloads)
    /\ analyses # <<>>
    /\ merged' = merge_analyses(analyses)
    /\ fpc' = "large_merged"
    /\ UNCHANGED << AnalyzeVars, SessionVars, failures, score, risk, other, ret,
                    ret_other, analyses, chunk_input, max_words, chunk_output >>

\* Lines 517-518: no chunk gave an analysis.
LargeAllFailed ==
    /\ fpc = "large"
    /\ Len(analyses) + failed = Len(chunk_payloads)
    /\ analyses = <<>>
    /\ fpc' = "large_failed"
    /\ UNCHANGED << AnalyzeVars, SessionVars, failures, score, risk, other, ret,
                    ret_other, analyses, merged, chunk_input, max_words,
                    chunk_output >>

NextLarge ==
    \/ LargeAnalyzeChunk
    \/ LargeMerge
    \/ LargeAllFailed

SpecLarge == InitLarge /\ [][NextLarge]_vars

(***************************************************************************)
(* THE RUN HANDLER of the page (src/app.py, lines 449-530) over a session: *)
(* the text area and the toggle are edited, Analyze is clicked, and the    *)
(* analysis started by a click returns or raises.                          *)
(***************************************************************************)
MaxVariants == 2

TAXONOMY_VERSION == "v3"
MODEL == "gpt-4o-mini"
STANDARD_MAX_CHARS == 300000
ABSOLUTE_MAX_CHARS == 1200000
MinChars == 50

\* The texts a user enters: empty, blank, too short, two memos of the same
\* length, one that needs large mode, one over the absolute maximum.
SessionDocs ==
    { NoDoc, Doc("blank", 60, 0), Doc("short", 49, 49), Doc("memo", 1000, 1000),
      Doc("brief", 1000, 990), Doc("long", STANDARD_MAX_CHARS + 1, STANDARD_MAX_CHARS),
      Doc("huge", ABSOLUTE_MAX_CHARS + 1, ABSOLUTE_MAX_CHARS + 1) }

\* f"{TAXONOMY_VERSION}|{MODEL}|{document_text}"
HashKey(d) == << TAXONOMY_VERSION, "|", MODEL, "|", d.id >>

\* stable_hash: the SHA-256 digest of the text, taken as free of collisions.
stable_hash(text) == [isnone |-> FALSE, sha256 |-> text]

\* Lines 462-482: the checks that end the handler with st.error and st.stop.
Rejected(d, large) ==
    \/ d.len = 0
    \/ d.stripped < MinChars
    \/ d.len > ABSOLUTE_MAX_CHARS
    \/ (~large /\ d.len > STANDARD_MAX_CHARS)

\* Lines 488-491
is_cached(stored_hash, stored_result, h) ==
    stored_hash = h /\ ~stored_result.isnone

\* What st.error shows for a text the handler rejects, and what the page shows
\* when the analysis raised.
ErrorShown == [NoResult EXCEPT !.isnone = FALSE, !.of = "<error>"]
ExceptionShown == [NoResult EXCEPT !.isnone = FALSE, !.of = "<exception>"]

\* Lines 499-525: the result dict of an analysis of d, by analyze or by the
\* large-document loop; the oracle may answer differently each time.
SessionResults(d, large) ==
    { [isnone |-> FALSE, success |-> b, of |-> d.id, variant |-> v,
       path |-> IF large /\ d.len > STANDARD_MAX_CHARS THEN "large" ELSE "standard"] :
        b \in BOOLEAN, v \in 1..MaxVariants }

NotSessionVars == << AnalyzeVars, failures, score, risk, fpc, CallVars,
                     chunk_payloads, failed >>

InitSession ==
    /\ AnalyzeIdle
    /\ failures = <<>>
    /\ score = 0
    /\ risk = None
    /\ fpc = "idle"
    /\ CallsIdle
    /\ SessionIdle

\* Lines 422-429: the text area is edited (or a file or an example loaded);
\* the script reruns without a click and shows no result.
EditDocument ==
    /\ run_pc = "idle"
    /\ doc_text' \in SessionDocs
    /\ shown' = NoResult
    /\ UNCHANGED << NotSessionVars, large_mode, is_running, last_result,
                    last_doc_hash, run_pc, document_text, doc_hash >>

\* Lines 434-438: the toggle is switched.
ToggleLargeMode ==
    /\ run_pc = "idle"
    /\ large_mode' = ~large_mode
    /\ shown' = NoResult
    /\ UNCHANGED << NotSessionVars, doc_text, is_running, last_result,
                    last_doc_hash, run_pc, document_text, doc_hash >>

\* Lines 449-496: Analyze is clicked.  The text is rejected, or the stored
\* result is shown, or the analysis begins.
ClickAnalyze ==
    /\ run_pc = "idle"
    /\ ~is_running
    /\ document_text' = doc_text
    /\ IF Rejected(doc_text, large_mode)
       THEN /\ is_running' = FALSE
            /\ shown' = ErrorShown
            /\ UNCHANGED << run_pc, doc_hash >>
       ELSE /\ doc_hash' = stable_hash(HashKey(doc_text))
            /\ IF is_cached(last_doc_hash, last_result, doc_hash')
               THEN /\ is_running' = FALSE
                    /\ shown' = last_result
                    /\ UNCHANGED run_pc
               ELSE /\ is_running' = TRUE
                    /\ shown' = NoResult
                    /\ run_pc' = "analyzing"
    /\ UNCHANGED << NotSessionVars, doc_text, large_mode, last_result, last_doc_hash >>

\* A handler without the finally clause.
AnalysisRaises_no_finally ==
    /\ run_pc = "analyzing"
    /\ run_pc' = "idle"
    /\ shown' = ExceptionShown
    /\ UNCHANGED << NotSessionVars, doc_text, large_mode, is_running, last_result,
                    last_doc_hash, document_text, doc_hash >>

\* Lines 497-530: the analysis returned; the result and the hash are stored.
AnalysisReturns ==
    /\ run_pc = "analyzing"
    /\ \E r \in SessionResults(document_text, large_mode) :
          /\ last_result' = r
          /\ shown' = r
    /\ last_doc_hash' = doc_hash
    /\ is_running' = FALSE
    /\ run_pc' = "idle"
    /\ UNCHANGED << NotSessionVars, doc_text, large_mode, document_text, doc_hash >>

\* Lines 497-530: the analysis raised; the finally clause runs.
AnalysisRaises ==
    /\ run_pc = "analyzing"
    /\ is_running' = FALSE
    /\ run_pc' = "idle"
    /\ shown' = ExceptionShown
    /\ UNCHANGED << NotSessionVars, doc_text, large_mode, last_result,
                    last_doc_hash, document_text, doc_hash >>

NextSession ==
    \/ EditDocument
    \/ ToggleLargeMode
    \/ ClickAnalyze
    \/ AnalysisReturns
    \/ AnalysisRaises

SpecSession == InitSession /\ [][NextSession]_vars

(***************************************************************************)
(* PROPERTIES.                                                             *)
(*                                                                         *)
(* A reference for normalisation on the characters themselves, written     *)
(* from its description: NUL bytes removed, runs of three or more          *)
(* newlines collapsed to two, the ends trimmed.                            *)
(***************************************************************************)
RECURSIVE LeadingNewlines(_)
LeadingNewlines(cs) ==
    IF cs # <<>> /\ Head(cs) = "NL" THEN 1 + LeadingNewlines(Tail(cs)) ELSE 0

RECURSIVE RefCollapse(_)
RefCollapse(cs) ==
    IF cs = <<>> THEN <<>>
    ELSE IF Head(cs) = "NL"
         THEN LET k == LeadingNewlines(cs) IN
              (IF k >= 3 THEN <<"NL", "NL">> ELSE Rep(<<"NL">>, k))
              \o RefCollapse(SubSeq(cs, k + 1, Len(cs)))
         ELSE <<Head(cs)>> \o RefCollapse(Tail(cs))

RECURSIVE RefTrimLeft(_)
RefTrimLeft(cs) ==
    IF cs # <<>> /\ Head(cs) \in {"NL", "SP"} THEN RefTrimLeft(Tail(cs)) ELSE cs

RECURSIVE RefTrimRight(_)
RefTrimRight(cs) ==
    IF cs # <<>> /\ Last(cs) \in {"NL", "SP"} THEN RefTrimRight(Front(cs)) ELSE cs

RefNormalize(cs) ==
    RefTrimRight(RefTrimLeft(RefCollapse(SelectSeq(cs, LAMBDA c : c # "NUL"))))

\* The letters of a text: normalisation removes none of them.
RECURSIVE Letters(_)
Letters(t) ==
    IF t = <<>> THEN 0
    ELSE (IF Head(t).k \in {"w", "pw", "jw"} THEN Head(t).n ELSE 0) + Letters(Tail(t))

\* The normalized text of the document has fewer than 50 characters.
NormalizedShort == Letters(raw) < 50 /\ Len(RefNormalize(Expand(raw))) < 50

NoCalls == [analysis |-> 0, repair |-> 0, synthesis |-> 0]

\* C1: analyze on a document whose normalized text is shorter than 50
\* characters returns success=false with an error stating the minimum length
\* (50), and in that run the chunker is never invoked and no oracle call is made.
C1_TooShortRejected ==
    NormalizedShort =>
        /\ chunker_calls = 0
        /\ calls = NoCalls
        /\ pc \in {"start", "done"}
        /\ pc = "done" =>
             /\ result.outcome = "returned"
             /\ result.success = FALSE
             /\ "analysis" \notin result.keys
             /\ result.error.msg = "Document too short (minimum {} characters)"
             /\ result.error.args = <<50>>

\* C1 witness: a document of 50 or more raw characters whose normalized text is
\* shorter than 50 has been rejected.
C1_Witness ==
    /\ pc = "done"
    /\ NormalizedShort
    /\ TextLen(raw) >= 50
    /\ result.error = ErrTooShort


\* The run ended in the check before chunk i (lines 509-513).
EndedByTimeout == pc = "done" /\ i \in 1..Len(chunks)

\* The run ended after the loop had gone through every chunk.
EndedAfterLoop == pc = "done" /\ chunks # <<>> /\ i > Len(chunks)

C3_AllFailedReportsCounts ==
    (EndedAfterLoop /\ chunk_failures = Len(chunks)) =>
        /\ result.success = FALSE
        /\ "analysis" \notin result.keys
        /\ "chunks_succeeded" \in result.keys
        /\ result.chunks_succeeded = 0
        /\ "chunks_failed" \in result.keys
        /\ result.chunks_failed = Len(chunks)

StructuredResult ==
    /\ result.outcome = "returned"
    /\ \/ /\ result.success = TRUE
          /\ "analysis" \in result.keys
          /\ result.analysis.top = "dict"
          /\ "error" \notin result.keys
       \/ /\ result.success = FALSE
          /\ "error" \in result.keys
          /\ result.error.msg # None
          /\ "analysis" \notin result.keys

ShapeErrors == {"Analysis failed schema validation", "AttributeError", "TypeError"}

TypesOf(value) == {value.v[j].type : j \in 1..Len(value.v)}

NumWith(list, sev) == Cardinality({j \in 1..Len(list) : list[j].severity = sev})

Clamp(x) == IF x < 0 THEN 0 ELSE IF x > 100 THEN 100 ELSE x

\* C9: for every finding list, _compute_score returns 100 minus 35 per
\* critical, 20 per high, 10 per medium and 0 per low finding, clamped to
\* [0, 100]; so the score is always in [0, 100], is exactly 100 for the empty
\* list and is at most 65 for a list with a critical finding.
C9_ScoreFormula ==
    fpc \in {"scored", "done"} =>
        /\ score = Clamp(100 - 35 * NumWith(failures, "critical")
                             - 20 * NumWith(failures, "high")
                             - 10 * NumWith(failures, "medium")
                             - 0 * NumWith(failures, "low"))
        /\ score \in 0..100
        /\ failures = <<>> => score = 100
        /\ NumWith(failures, "critical") >= 1 => score <= 65

\* C9 witness: a list with critical and low findings whose penalties pass 100
\* has been scored 0.
C9_Witness ==
    /\ fpc = "scored"
    /\ score = 0
    /\ NumWith(failures, "critical") >= 1
    /\ NumWith(failures, "low") >= 1
    /\ 35 * NumWith(failures, "critical") + 20 * NumWith(failures, "high")
         + 10 * NumWith(failures, "medium") > 100

\* The decision table, written from its description.
TableRisk(list) ==
    IF NumWith(list, "critical") >= 1 THEN "critical"
    ELSE IF NumWith(list, "high") >= 3 THEN "high"
    ELSE IF NumWith(list, "high") >= 1 \/ NumWith(list, "medium") >= 5 THEN "medium"
    ELSE "low"

\* C10: for every finding list, _compute_decision_risk returns the decision
\* table: critical if any finding is critical; else high if at least 3 are
\* high; else medium if at least 1 is high or at least 5 are medium; else low.
C10_DecisionTable ==
    fpc = "done" =>
        /\ risk = TableRisk(failures)
        /\ failures = <<>> => risk = "low"

\* C10 witness: five medium findings and no high one gave medium.
C10_Witness ==
    /\ fpc = "done"
    /\ NumWith(failures, "medium") = 5
    /\ NumWith(failures, "high") = 0
    /\ risk = "medium"


\* The scale low < medium < high < critical of decision_risk.
RiskScale == << "low", "medium", "high", "critical" >>
RiskRank(r) == CHOOSE j \in 1..Len(RiskScale) : RiskScale[j] = r

\* C11: for every finding list F and every finding x of any severity,
\* decision_risk(F plus x) is never lower than decision_risk(F) on the scale
\* low < medium < high < critical.
C11_RiskMonotoneUnderAddition ==
    fpc = "added" =>
        /\ ret \in Range(RiskScale)
        /\ ret_other \in Range(RiskScale)
        /\ RiskRank(ret_other) >= RiskRank(ret)

\* C11 witness: a third high finding was added to a list of medium risk and
\* the risk became high.
C11_Witness ==
    /\ fpc = "added"
    /\ NumWith(failures, "high") = 2
    /\ ret = "medium"
    /\ ret_other = "high"

\* The rank of the highest severity in a list, 0 for a list with none.
RECURSIVE MaxSeverityRank(_)
MaxSeverityRank(list) ==
    IF list = <<>> THEN 0
    ELSE Max(_severity_rank(Head(list).severity), MaxSeverityRank(Tail(list)))

\* C12, as claimed: for any two finding lists A and B, if the highest severity
\* in A ranks no higher than the highest severity in B, then decision_risk(A)
\* ranks no higher than decision_risk(B).
C12_RiskMonotoneInMaxSeverity ==
    (fpc = "compared" /\ MaxSeverityRank(failures) <= MaxSeverityRank(other)) =>
        RiskRank(ret) <= RiskRank(ret_other)

\* C12, amended: if the highest severity in A ranks strictly lower than the
\* highest severity in B, then decision_risk(A) ranks no higher than
\* decision_risk(B); and decision_risk never ranks above the highest severity
\* present: low with no finding above low, at most medium with none above
\* medium, at most high with none above high.  Between lists of the same
\* highest severity the risk follows the counts.
C12_RiskFollowsMaxSeverity ==
    fpc = "compared" =>
        /\ MaxSeverityRank(failures) < MaxSeverityRank(other) =>
               RiskRank(ret) <= RiskRank(ret_other)
        /\ RiskRank(ret) <= 1 + MaxSeverityRank(failures)
        /\ RiskRank(ret_other) <= 1 + MaxSeverityRank(other)

\* C12 witness: five medium findings were compared with a list whose highest
\* severity is high, and both are of medium risk.
C12_Witness ==
    /\ fpc = "compared"
    /\ NumWith(failures, "medium") = 5
    /\ MaxSeverityRank(failures) = RankMedium
    /\ MaxSeverityRank(other) = RankHigh
    /\ ret = "medium"
    /\ ret_other = "medium"


\* The types of a list of findings and how often each occurs.
TypeSet(list) == {list[j].type : j \in 1..Len(list)}
Frequency(list, t) == Cardinality({j \in 1..Len(list) : list[j].type = t})

\* The k most frequent types among those of S, most frequent first, ties by
\* ascending type name.
RECURSIVE MostFrequent(_, _, _)
MostFrequent(list, S, k) ==
    IF k = 0 \/ S = {} THEN <<>>
    ELSE LET best == CHOOSE t \in S : \A u \in S \ {t} :
                         \/ Frequency(list, t) > Frequency(list, u)
                         \/ /\ Frequency(list, t) = Frequency(list, u)
                            /\ TypeRank(t) < TypeRank(u)
         IN  <<best>> \o MostFrequent(list, S \ {best}, k - 1)

NoRepeats(seq) == \A a, b \in 1..Len(seq) : seq[a] = seq[b] => a = b

\* C13: top_risk_flags of a report is the list of the (at most) 3 most frequent
\* finding types across the report's findings, ties broken by ascending type
\* name; so it never contains the same type twice and is empty when there are
\* no findings.
C13_TopRiskFlagsMostFrequent ==
    fpc = "normalized" =>
        /\ ret.top_risk_flags.v =
               MostFrequent(ret.failures_detected.v, TypeSet(ret.failures_detected.v), 3)
        /\ NoRepeats(ret.top_risk_flags.v)
        /\ ret.failures_detected.v = <<>> => ret.top_risk_flags.v = <<>>

\* A list is in the order of descending severity rank, then ascending type name.
InRankOrder(list) ==
    \A j \in 1..(Len(list) - 1) :
        \/ _severity_rank(list[j].severity) > _severity_rank(list[j + 1].severity)
        \/ /\ _severity_rank(list[j].severity) = _severity_rank(list[j + 1].severity)
           /\ TypeRank(list[j].type) <= TypeRank(list[j + 1].type)

\* C14: failures_detected of an analysis is ordered by descending severity rank
\* and then ascending type name, and this final list is the same for every
\* order in which the same findings arrive.
C14_OrderIndependentOfArrival ==
    fpc = "normalized" =>
        /\ InRankOrder(ret.failures_detected.v)
        /\ InRankOrder(ret_other.failures_detected.v)
        /\ ret.failures_detected = ret_other.failures_detected


\* The representative fields of a payload.
Representative(q) ==
    << q.thesis, q.logical_chain, q.overall_assessment, q.claims,
       q.counterfactual_tests, q.assumption_sensitivity, q.strengths_detected >>

ReportFindings(q) == q.failures_detected.v \o q.structural_failures.v

RECURSIVE InputFindings(_)
InputFindings(list) ==
    IF list = <<>> THEN <<>> ELSE ReportFindings(Head(list)) \o InputFindings(Tail(list))

FindingKey(f) == << f.type, f.location >>

SeverityScale == << "low", "medium", "high", "critical" >>
ScaleRank(sev) == CHOOSE j \in 1..Len(SeverityScale) : SeverityScale[j] = sev

\* C16: merging chunk results deduplicates findings by the key (type,
\* location_hint): the merged report has exactly one finding for each key the
\* chunks reported, with the highest severity reported for it (one finding of
\* severity high for a key reported as medium and as high), and merging a list
\* together with an identical copy of itself gives the findings of merging it
\* once.
C16_MergeDeduplicatesByKey ==
    fpc = "merged" =>
        LET inputs == InputFindings(analyses)
            outputs == ReportFindings(merged)
        IN  /\ \A j \in 1..Len(inputs) :
                 /\ Cardinality({k \in 1..Len(outputs) :
                        FindingKey(outputs[k]) = FindingKey(inputs[j])}) = 1
                 /\ \A k \in 1..Len(outputs) :
                        FindingKey(outputs[k]) = FindingKey(inputs[j]) =>
                            ScaleRank(outputs[k].severity) >= ScaleRank(inputs[j].severity)
            /\ (Len(analyses) = 2 /\ analyses[1] = analyses[2]) =>
                   ReportFindings(merged) = ReportFindings(merge_analyses(<<analyses[1]>>))

\* C17: in the report assembled by merge_analyses from several analyses, as in
\* the one built by analyze, reasoning_score and decision_risk are the score
\* formula and the decision table applied to the report's own final
\* failures_detected list.
C17_MergedScoreFromOwnFindings ==
    fpc = "merged" =>
        /\ merged.reasoning_score.v =
               Clamp(100 - 35 * NumWith(merged.failures_detected.v, "critical")
                         - 20 * NumWith(merged.failures_detected.v, "high")
                         - 10 * NumWith(merged.failures_detected.v, "medium"))
        /\ merged.decision_risk = TableRisk(merged.failures_detected.v)


\* A payload lacks one of the required fields that _synthesize does not set.
LacksRequired(q) ==
    q.thesis = None \/ q.claims.t = "absent" \/ q.overall_assessment = None

\* The run synthesized the one payload it had, and the normalisation of that
\* payload did not raise.
SynthesizedOnePayload ==
    /\ EndedAfterLoop
    /\ Len(chunk_results) = 1
    /\ chunk_results[1].top = "dict"
    /\ \A v \in { chunk_results[1].claims, chunk_results[1].counterfactual_tests,
                  chunk_results[1].assumption_sensitivity,
                  chunk_results[1].strengths_detected } : v.t \in {"absent", "list"}

RECURSIVE ChunkChars(_)
ChunkChars(list) ==
    IF list = <<>> THEN <<>> ELSE Expand(Head(list)) \o ChunkChars(Tail(list))

\* C19: for every normalized document and chunk size, the chunks returned by
\* _chunk_document, taken in order, cover every character of the document
\* exactly once: none is lost between or inside chunks, none is repeated, none
\* is altered.
C19_ChunksCoverEveryCharacter ==
    fpc = "chunked" => ChunkChars(chunk_output) = Expand(chunk_input)


\* C20: build_prompt raises for every chunk text, so _analyze_chunk fails
\* before any oracle call is issued, every chunk is counted as failed, and
\* analyze on a document of 50 or more normalized characters can only return
\* success=false (all chunks failed, or timeout): no run reaches success=true.
C20_ShippedPromptAlwaysRaises ==
    /\ AtChunk => build_prompt(template, chunks[i]).exc = "KeyError"
    /\ calls = NoCalls
    /\ pc \in {"start", "loop", "done"}
    /\ chunk_results = <<>>
    /\ chunks # <<>> => /\ chunk_failures = i - 1
                        /\ raised = 1..(i - 1)
    /\ pc = "done" =>
         /\ result.outcome = "returned"
         /\ result.success = FALSE
         /\ "analysis" \notin result.keys
         /\ ~NormalizedShort =>
              result.error \in {ErrAllFailed,
                                ErrTimeout(timeout_seconds, 0, Len(chunks))}

\* C20 witness: a document of two chunks ended with both chunks failed, no
\* oracle call made.
C20_Witness ==
    /\ pc = "done"
    /\ Len(chunks) = 2
    /\ chunk_failures = 2
    /\ raised = {1, 2}
    /\ calls = NoCalls
    /\ result.error = ErrAllFailed


ListFields(q) ==
    << q.claims, q.failures_detected, q.counterfactual_tests,
       q.assumption_sensitivity, q.strengths_detected >>

\* The text _repair_json returned does not parse, or the call raised.
RepairFailed(r) == r.called /\ (r.raises \/ ~json_loads(r.text).ok)

SynthesisCallRaised ==
    /\ pc = "done"
    /\ calls.synthesis = 1
    /\ ~repaired.called
    /\ result.error.msg = "APIError"

\* The synthesis response did not parse and its one repair failed.
SynthesisRepairFailed ==
    /\ pc = "done"
    /\ calls.synthesis = 1
    /\ RepairFailed(repaired)

TaxonomyFinding(f) ==
    [f EXCEPT !.severity = MICRO_REASONING_FAILURES[f.type].severity,
              !.actionability = MICRO_REASONING_FAILURES[f.type].actionability]

\* The findings of a payload that are objects with a type of the taxonomy,
\* with the taxonomy's metadata, in the order of the payload.
RECURSIVE ValidFindings(_)
ValidFindings(list) ==
    IF list = <<>> THEN <<>>
    ELSE IF Head(list).isdict /\ Head(list).type \in DOMAIN MICRO_REASONING_FAILURES
         THEN << TaxonomyFinding(Head(list)) >> \o ValidFindings(Tail(list))
         ELSE ValidFindings(Tail(list))

RECURSIVE ValidOfAll(_)
ValidOfAll(payloads) ==
    IF payloads = <<>> THEN <<>>
    ELSE ValidFindings(Head(payloads).failures_detected.v) \o ValidOfAll(Tail(payloads))

Occurrences(list, x) == Cardinality({j \in 1..Len(list) : list[j] = x})

\* Every finding that is in found more often than in kept was cut, and ranks
\* no higher than any finding kept.
CutRanksBelowKept(found, kept) ==
    \A a \in 1..Len(found) :
        Occurrences(found, found[a]) > Occurrences(kept, found[a]) =>
            \A b \in 1..Len(kept) :
                ScaleRank(found[a].severity) <= ScaleRank(kept[b].severity)

CapAfterRankingInAnalyze ==
    (fpc = "large" /\ failed = 0) =>
        \A j \in 1..Len(analyses) :
            CutRanksBelowKept(ValidFindings(chunk_payloads[j].failures_detected.v),
                              analyses[j].failures_detected.v)


\* The number of whitespace-separated words of a coalesced text.
RECURSIVE WordCount(_)
WordCount(t) ==
    IF t = <<>> THEN 0
    ELSE (IF Head(t).k = "w" THEN 1
          ELSE IF Head(t).k \in {"pw", "jw"} THEN Head(t).n
          ELSE 0) + WordCount(Tail(t))

SubBag(part, whole) ==
    \A j \in 1..Len(part) : Occurrences(part, part[j]) <= Occurrences(whole, part[j])

HashOfText(id) == [isnone |-> FALSE, sha256 |-> << "v3", "|", "gpt-4o-mini", "|", id >>]

\* The stored result belongs to the text in the text area.
StoredForCurrentText ==
    /\ ~last_result.isnone
    /\ last_doc_hash = HashOfText(doc_text.id)

\* A step that is a click on Analyze: the handler was idle, the step is
\* neither an edit of the text nor a switch of the toggle, and it shows
\* something or begins an analysis (a rerun without a click shows nothing).
IsClick ==
    /\ run_pc = "idle"
    /\ doc_text' = doc_text
    /\ large_mode' = large_mode
    /\ (shown' # NoResult \/ run_pc' = "analyzing")

\* C30: over any sequence of clicks in one session, the analyzer is skipped
\* and the stored result shown only when the hash of (taxonomy version, model
\* identifier, document text) equals last_doc_hash and last_result is not
\* None, and then the result shown is the stored one; last_result and
\* last_doc_hash change only together, in the step in which an analysis
\* returns, so that a stored result is the one computed for the text whose
\* hash is stored; and is_running is false whenever the handler is not inside
\* an analysis, whether the analysis returned or raised.
C30_SessionCache ==
    /\ [](/\ last_result.isnone <=> last_doc_hash.isnone
          /\ ~last_result.isnone => last_doc_hash = HashOfText(last_result.of)
          /\ is_running <=> run_pc = "analyzing")
    /\ [][ /\ (IsClick /\ run_pc' = "idle" /\ shown' \notin {ErrorShown, NoResult}) =>
                 (StoredForCurrentText /\ shown' = last_result)
           /\ (IsClick /\ StoredForCurrentText /\ ~Rejected(doc_text, large_mode)) =>
                 (run_pc' = "idle" /\ shown' = last_result)
           /\ (IsClick /\ ~StoredForCurrentText /\ ~Rejected(doc_text, large_mode)) =>
                 (run_pc' = "analyzing" /\ is_running')
           /\ IsClick => (last_result' = last_result /\ last_doc_hash' = last_doc_hash)
           /\ (last_result' # last_result \/ last_doc_hash' # last_doc_hash) =>
                 /\ run_pc = "analyzing"
                 /\ ~last_result'.isnone
                 /\ last_result'.of = document_text.id
                 /\ last_doc_hash' = HashOfText(document_text.id)
                 /\ shown' = last_result'
           /\ run_pc = "analyzing" => (run_pc' = "idle" /\ ~is_running')
         ]_vars

\* C30 witness: a result stored for one memo is shown again by a click, with
\* the analyzer idle, after an analysis of another text raised and the first
\* memo was entered again.
C30_Witness ==
    /\ run_pc = "idle"
    /\ ~is_running
    /\ doc_text = Doc("memo", 1000, 1000)
    /\ document_text = doc_text
    /\ last_doc_hash = HashOfText("memo")
    /\ last_result.of = "memo"
    /\ last_result.variant = 2
    /\ shown = last_result
    /\ doc_hash = last_doc_hash

=============================================================================
